---- MODULE Spec2Model ----
(***************************************************************************)
(* Edit-tag spell correction (backend/edit_tag_spellfix, model_loader).    *)
(*                                                                         *)
(* A Python str is modelled as a sequence of one-character strings, so     *)
(* that startswith, split and join are computed and not assumed.  Python   *)
(* lists are sequences; the code's 0-based indices are kept in the         *)
(* opcodes and counters, and a list access l[k] is written l[k + 1].       *)
(***************************************************************************)
EXTENDS Integers, Sequences, FiniteSets, TLC

\* ------------------------------------------------------------------------
\* Bounds of the model
\* ------------------------------------------------------------------------
MaxOrig == 4
MaxCor == 3
MaxWords == 2
MaxExamples == 2
MaxPoolOrig == 2
MaxLength == 6
MaxInferLen == 5
MaxWalk == 2
MaxChars == 4

\* ------------------------------------------------------------------------
\* tags.py: tag constants and string helpers
\* ------------------------------------------------------------------------
KEEP == <<"K", "E", "E", "P">>
DELETE == <<"D", "E", "L", "E", "T", "E">>
INSERT == <<"I", "N", "S", "E", "R", "T", "_">>
REPLACE == <<"R", "E", "P", "L", "A", "C", "E", "_">>
KEEP_GAP == <<"K", "E", "E", "P", "_", "G", "A", "P">>
EmptyStr == <<>>

\* str.startswith
StartsWith(s, p) == Len(s) >= Len(p) /\ SubSeq(s, 1, Len(p)) = p

is_insert(tag) == StartsWith(tag, INSERT)

is_replace(tag) == StartsWith(tag, REPLACE)

\* position (1-based) of the first occurrence of ch in s, 0 when absent
FirstIndex(s, ch) ==
    IF \E k \in 1..Len(s) : s[k] = ch
    THEN CHOOSE k \in 1..Len(s) : s[k] = ch /\ \A m \in 1..(k - 1) : s[m] # ch
    ELSE 0

LastIndex(s, ch) ==
    IF \E k \in 1..Len(s) : s[k] = ch
    THEN CHOOSE k \in 1..Len(s) : s[k] = ch /\ \A m \in (k + 1)..Len(s) : s[m] # ch
    ELSE 0

strip_prefix_rsplit(tag) ==
    IF LastIndex(tag, "_") > 0
    THEN SubSeq(tag, LastIndex(tag, "_") + 1, Len(tag))
    ELSE EmptyStr

\* tag.split("_", 1)[1] if "_" in tag else ""
strip_prefix(tag) ==
    IF FirstIndex(tag, "_") > 0
    THEN SubSeq(tag, FirstIndex(tag, "_") + 1, Len(tag))
    ELSE EmptyStr

\* sep.join(list)
RECURSIVE Join(_, _)
Join(sep, list) ==
    IF Len(list) = 0 THEN EmptyStr
    ELSE IF Len(list) = 1 THEN list[1]
    ELSE list[1] \o sep \o Join(sep, Tail(list))

SpaceJoin(list) == Join(<<" ">>, list)

\* list[lo:hi]
Slice(list, lo, hi) == SubSeq(list, lo + 1, hi)

\* [x] * n
RECURSIVE Repeat(_, _)
Repeat(x, n) == IF n <= 0 THEN <<>> ELSE Append(Repeat(x, n - 1), x)

\* ------------------------------------------------------------------------
\* difflib.SequenceMatcher(None, a, b), as called by diff_to_tags
\* ------------------------------------------------------------------------
AutoJunkMin == 200

Count(b, elt) == Cardinality({k \in 1..Len(b) : b[k] = elt})

\* __chain_b: with isjunk None nothing is junk; elements occurring more than
\* n // 100 + 1 times in a b of 200 or more elements are dropped from b2j
Popular(b, elt) ==
    Len(b) >= AutoJunkMin /\ Count(b, elt) > (Len(b) \div 100) + 1

\* a[i] matches b[j] through b2j
InB2J(a, b, i, j) == a[i + 1] = b[j + 1] /\ ~Popular(b, b[j + 1])

\* newj2len[j] = j2len.get(j - 1, 0) + 1 : length of the run of b2j matches
\* that ends at (i, j) inside a[alo:], b[blo:]
RECURSIVE J2Len(_, _, _, _, _, _)
J2Len(a, b, i, j, alo, blo) ==
    IF i < alo \/ j < blo THEN 0
    ELSE IF ~InB2J(a, b, i, j) THEN 0
    ELSE J2Len(a, b, i - 1, j - 1, alo, blo) + 1

\* the two nested loops of find_longest_match: i ascending, j ascending,
\* (besti, bestj, bestsize) replaced only when k > bestsize.  The triple
\* left at the end is that of the first (i, j) in loop order whose run
\* length is the largest one; <<alo, blo, 0>> when nothing matches
ScanBest(a, b, alo, ahi, blo, bhi) ==
    LET ends == (alo..(ahi - 1)) \X (blo..(bhi - 1))
        K(e) == J2Len(a, b, e[1], e[2], alo, blo)
        longest == {e \in ends : K(e) > 0 /\ \A f \in ends : K(f) <= K(e)}
    IN  IF longest = {} THEN <<alo, blo, 0>>
        ELSE LET e == CHOOSE x \in longest :
                          \A y \in longest :
                              x[1] < y[1] \/ (x[1] = y[1] /\ x[2] <= y[2])
                 k == K(e)
             IN  <<e[1] - k + 1, e[2] - k + 1, k>>

RECURSIVE ExtendLeft(_, _, _, _, _)
ExtendLeft(a, b, alo, blo, best) ==
    IF best[1] > alo /\ best[2] > blo /\ a[best[1]] = b[best[2]]
    THEN ExtendLeft(a, b, alo, blo, <<best[1] - 1, best[2] - 1, best[3] + 1>>)
    ELSE best

RECURSIVE ExtendRight(_, _, _, _, _)
ExtendRight(a, b, ahi, bhi, best) ==
    IF best[1] + best[3] < ahi /\ best[2] + best[3] < bhi
       /\ a[best[1] + best[3] + 1] = b[best[2] + best[3] + 1]
    THEN ExtendRight(a, b, ahi, bhi, <<best[1], best[2], best[3] + 1>>)
    ELSE best

find_longest_match(a, b, alo, ahi, blo, bhi) ==
    LET scanned == ScanBest(a, b, alo, ahi, blo, bhi)
    IN  ExtendRight(a, b, ahi, bhi, ExtendLeft(a, b, alo, blo, scanned))

\* get_matching_blocks: the work queue splits around each match and the
\* result is sorted; the blocks left of a match sort before it and those
\* right of it after, so the sorted list is the in-order list built here
RECURSIVE MatchingBlocks(_, _, _, _, _, _)
MatchingBlocks(a, b, alo, ahi, blo, bhi) ==
    LET x == find_longest_match(a, b, alo, ahi, blo, bhi)
        i == x[1]
        j == x[2]
        k == x[3]
    IN  IF k = 0 THEN <<>>
        ELSE (IF alo < i /\ blo < j
              THEN MatchingBlocks(a, b, alo, i, blo, j) ELSE <<>>)
             \o <<x>>
             \o (IF i + k < ahi /\ j + k < bhi
                 THEN MatchingBlocks(a, b, i + k, ahi, j + k, bhi) ELSE <<>>)

\* collapse adjacent equal blocks: acc is non_adjacent, cur is (i1, j1, k1)
RECURSIVE NonAdjacent(_, _, _)
NonAdjacent(blocks, cur, acc) ==
    IF Len(blocks) = 0
    THEN IF cur[3] # 0 THEN Append(acc, cur) ELSE acc
    ELSE LET x == blocks[1]
         IN  IF cur[1] + cur[3] = x[1] /\ cur[2] + cur[3] = x[2]
             THEN NonAdjacent(Tail(blocks), <<cur[1], cur[2], cur[3] + x[3]>>, acc)
             ELSE NonAdjacent(Tail(blocks), x,
                              IF cur[3] # 0 THEN Append(acc, cur) ELSE acc)

get_matching_blocks(a, b) ==
    Append(NonAdjacent(MatchingBlocks(a, b, 0, Len(a), 0, Len(b)), <<0, 0, 0>>, <<>>),
           <<Len(a), Len(b), 0>>)

Opcode(op, i1, i2, j1, j2) == [op |-> op, i1 |-> i1, i2 |-> i2, j1 |-> j1, j2 |-> j2]

RECURSIVE OpcodesFrom_split(_, _, _, _)
OpcodesFrom_split(blocks, i, j, answer) ==
    IF Len(blocks) = 0 THEN answer
    ELSE LET ai == blocks[1][1]
             bj == blocks[1][2]
             size == blocks[1][3]
             ans0 == IF i < ai THEN Append(answer, Opcode("delete", i, ai, j, j)) ELSE answer
             ans1 == IF j < bj THEN Append(ans0, Opcode("insert", ai, ai, j, bj)) ELSE ans0
             ans2 == IF size # 0
                     THEN Append(ans1, Opcode("equal", ai, ai + size, bj, bj + size))
                     ELSE ans1
         IN  OpcodesFrom_split(Tail(blocks), ai + size, bj + size, ans2)

RECURSIVE OpcodesFrom(_, _, _, _)
OpcodesFrom(blocks, i, j, answer) ==
    IF Len(blocks) = 0 THEN answer
    ELSE LET ai == blocks[1][1]
             bj == blocks[1][2]
             size == blocks[1][3]
             tag == IF i < ai /\ j < bj THEN "replace"
                    ELSE IF i < ai THEN "delete"
                    ELSE IF j < bj THEN "insert"
                    ELSE ""
             ans1 == IF tag # "" THEN Append(answer, Opcode(tag, i, ai, j, bj)) ELSE answer
             ans2 == IF size # 0
                     THEN Append(ans1, Opcode("equal", ai, ai + size, bj, bj + size))
                     ELSE ans1
         IN  OpcodesFrom(Tail(blocks), ai + size, bj + size, ans2)

get_opcodes(a, b) == OpcodesFrom(get_matching_blocks(a, b), 0, 0, <<>>)

\* ------------------------------------------------------------------------
\* tags.py: diff_to_tags, one iteration of the opcode loop
\* ------------------------------------------------------------------------
InsertGap(cor, j1, j2) ==
    SpaceJoin([k \in 1..(j2 - j1) |-> INSERT \o cor[j1 + k]])

\* gaps[gap_idx] = value; an index past the end of the list raises IndexError
SetGap(st, gap_idx, value) ==
    IF gap_idx + 1 \in 1..Len(st.gaps)
    THEN [st EXCEPT !.gaps = [st.gaps EXCEPT ![gap_idx + 1] = value]]
    ELSE [st EXCEPT !.pc = "IndexError"]

\* op == "equal": tags.extend([KEEP] * (i2 - i1))
StepEqual_append(st, o) == [st EXCEPT !.tags = Append(st.tags, KEEP), !.i = st.i + 1]

StepEqual(st, o) ==
    [st EXCEPT !.tags = st.tags \o Repeat(KEEP, o.i2 - o.i1), !.i = st.i + 1]

StepDelete_anyinsert(cor, ops, st, o) ==
    IF /\ st.i + 1 < Len(ops)
       /\ ops[st.i + 2].op = "insert"
       /\ o.i2 - o.i1 = 1
    THEN [st EXCEPT !.tags = Append(st.tags, REPLACE \o cor[ops[st.i + 2].j1 + 1]),
                    !.i = st.i + 2]
    ELSE [st EXCEPT !.tags = st.tags \o Repeat(DELETE, o.i2 - o.i1), !.i = st.i + 1]

\* op == "delete": the look-ahead for a single-token insert, else DELETE tags
StepDelete(cor, ops, st, o) ==
    IF /\ st.i + 1 < Len(ops)
       /\ ops[st.i + 2].op = "insert"
       /\ o.i2 - o.i1 = 1
       /\ ops[st.i + 2].j2 - ops[st.i + 2].j1 = 1
    THEN [st EXCEPT !.tags = Append(st.tags, REPLACE \o cor[ops[st.i + 2].j1 + 1]),
                    !.i = st.i + 2]
    ELSE [st EXCEPT !.tags = st.tags \o Repeat(DELETE, o.i2 - o.i1), !.i = st.i + 1]

StepReplace_corlen(orig, cor, st, o) ==
    LET span_orig == Slice(orig, o.i1, o.i2)
        span_cor == Slice(cor, o.j1, o.j2)
    IN  IF Len(span_orig) = Len(span_cor)
        THEN [st EXCEPT !.tags = st.tags \o [k \in 1..Len(span_cor) |-> REPLACE \o span_cor[k]],
                        !.i = st.i + 1]
        ELSE LET deleted == [st EXCEPT !.tags = st.tags \o Repeat(DELETE, Len(span_cor)),
                                       !.i = st.i + 1]
             IN  SetGap(deleted, Len(deleted.tags), InsertGap(cor, o.j1, o.j2))

\* op == "replace": pairwise REPLACE_ tags for equal spans, else DELETE tags
\* and one gap entry after them
StepReplace(orig, cor, st, o) ==
    LET span_orig == Slice(orig, o.i1, o.i2)
        span_cor == Slice(cor, o.j1, o.j2)
    IN  IF Len(span_orig) = Len(span_cor)
        THEN [st EXCEPT !.tags = st.tags \o [k \in 1..Len(span_cor) |-> REPLACE \o span_cor[k]],
                        !.i = st.i + 1]
        ELSE LET deleted == [st EXCEPT !.tags = st.tags \o Repeat(DELETE, Len(span_orig)),
                                       !.i = st.i + 1]
             IN  SetGap(deleted, Len(deleted.tags), InsertGap(cor, o.j1, o.j2))

StepInsert_front(cor, st, o) ==
    SetGap([st EXCEPT !.i = st.i + 1], 0, InsertGap(cor, o.j1, o.j2))

\* op == "insert": gap entry at the number of tags emitted so far
StepInsert(cor, st, o) ==
    SetGap([st EXCEPT !.i = st.i + 1], Len(st.tags), InsertGap(cor, o.j1, o.j2))

\* st = [i, tags, gaps, pc]; the body of `while i < len(opcodes)`
WalkStep(orig, cor, ops, st) ==
    LET o == ops[st.i + 1]
    IN  IF o.op = "equal" THEN StepEqual(st, o)
        ELSE IF o.op = "delete" THEN StepDelete(cor, ops, st, o)
        ELSE IF o.op = "replace" THEN StepReplace(orig, cor, st, o)
        ELSE IF o.op = "insert" THEN StepInsert(cor, st, o)
        ELSE [st EXCEPT !.i = st.i + 1]

WalkInit_short(orig) == [i |-> 0, tags |-> <<>>, gaps |-> Repeat(KEEP_GAP, Len(orig)), pc |-> "walk"]

WalkInit(orig) == [i |-> 0, tags |-> <<>>, gaps |-> Repeat(KEEP_GAP, Len(orig) + 1), pc |-> "walk"]

\* the loop run to its end, then `assert len(tags) == len(orig_tokens)`
RECURSIVE WalkAll(_, _, _, _)
WalkAll(orig, cor, ops, st) ==
    IF st.pc # "walk" THEN st
    ELSE IF st.i < Len(ops) THEN WalkAll(orig, cor, ops, WalkStep(orig, cor, ops, st))
    ELSE IF Len(st.tags) = Len(orig) THEN [st EXCEPT !.pc = "returned"]
    ELSE [st EXCEPT !.pc = "AssertionError"]

\* TaggedExample(orig_tokens, tags, gaps)
diff_to_tags(orig, cor) ==
    LET st == WalkAll(orig, cor, get_opcodes(orig, cor), WalkInit(orig))
    IN  [tokens |-> orig, tags |-> st.tags, gap_tags |-> st.gaps, pc |-> st.pc]

\* ------------------------------------------------------------------------
\* predict.py apply_tags / model_loader.py _apply_tags
\* ------------------------------------------------------------------------
Min(x, y) == IF x < y THEN x ELSE y

\* the piece one (tok, tg) pair appends to out: <<>> for none
Piece(tok, tg) ==
    IF tg = KEEP THEN <<tok>>
    ELSE IF tg = DELETE THEN <<>>
    ELSE IF is_replace(tg) THEN <<strip_prefix(tg)>>
    ELSE <<tok>>

RECURSIVE Pieces(_, _, _)
Pieces(tokens, tgs, k) ==
    IF k > Min(Len(tokens), Len(tgs)) THEN <<>>
    ELSE Piece(tokens[k], tgs[k]) \o Pieces(tokens, tgs, k + 1)

apply_tags(tokens, tgs) == SpaceJoin(Pieces(tokens, tgs, 1))

_apply_tags(tokens, tgs) == SpaceJoin(Pieces(tokens, tgs, 1))

\* ------------------------------------------------------------------------
\* tags.py: build_tag_vocab
\* ------------------------------------------------------------------------
\* code points of the characters that occur, in increasing order
CharOrder ==
    <<" ", "-", "A", "C", "D", "E", "G", "I", "K", "L", "N", "P", "R", "S", "T",
      "X", "_", "a", "b", "c", "d", "e", "f", "g", "h", "i", "k", "l", "n", "p",
      "r", "s", "t", "u", "w">>

Ord(ch) == CHOOSE k \in 1..Len(CharOrder) : CharOrder[k] = ch

\* s < t for two str
RECURSIVE StrLess(_, _)
StrLess(s, t) ==
    IF Len(t) = 0 THEN FALSE
    ELSE IF Len(s) = 0 THEN TRUE
    ELSE IF s[1] # t[1] THEN Ord(s[1]) < Ord(t[1])
    ELSE StrLess(Tail(s), Tail(t))

\* sorted(tag_set)
RECURSIVE Sorted(_)
Sorted(S) ==
    IF S = {} THEN <<>>
    ELSE LET m == CHOOSE x \in S : \A y \in S \ {x} : StrLess(x, y)
         IN  <<m>> \o Sorted(S \ {m})

ListElems(l) == {l[k] : k \in 1..Len(l)}

\* tag_set = {KEEP, DELETE}
TagSetInit == {KEEP, DELETE}

TagSetUpdate_gaps(tag_set, ex) == tag_set \cup ListElems(ex.tags) \cup ListElems(ex.gap_tags)

\* tag_set.update(ex.tags)
TagSetUpdate(tag_set, ex) == tag_set \cup ListElems(ex.tags)

\* {t: i for i, t in enumerate(tag_list)}
Enumerate(tag_list) ==
    [t \in ListElems(tag_list) |->
        (CHOOSE k \in 1..Len(tag_list) : tag_list[k] = t /\ \A m \in (k + 1)..Len(tag_list) : tag_list[m] # t) - 1]

\* ------------------------------------------------------------------------
\* data.py: TagDatasetBuilder.encode_examples, the label loop
\* ------------------------------------------------------------------------
None == -1
IgnoreIndex == -100

\* dict.get(key, default)
DictGet(d, key, default) == IF key \in DOMAIN d THEN d[key] ELSE default

LabelAt_every(word_ids, tag_seq, t2i, idx, old) ==
    LET w_id == word_ids[idx + 1]
    IN  IF w_id = None THEN old
        ELSE LET tag == IF w_id < Len(tag_seq) THEN tag_seq[w_id + 1] ELSE KEEP
             IN  DictGet(t2i, tag, t2i[KEEP])

\* the value labels[idx] has after iteration idx (old: its value before)
LabelAt(word_ids, tag_seq, t2i, idx, old) ==
    LET w_id == word_ids[idx + 1]
    IN  IF w_id = None THEN old
        ELSE IF idx = 0 \/ word_ids[idx] # w_id
        THEN LET tag == IF w_id < Len(tag_seq) THEN tag_seq[w_id + 1] ELSE KEEP
             IN  DictGet(t2i, tag, t2i[KEEP])
        ELSE old

\* ------------------------------------------------------------------------
\* predict.py predict_sentence / model_loader.py _predict_verbose:
\* the first-sub-token selection loop
\* ------------------------------------------------------------------------
SelectTags_every(w_ids, p_ids, i2t, k, tgs) ==
    LET w_id == w_ids[k + 1]
    IN  IF w_id = None THEN tgs
        ELSE Append(tgs, i2t[p_ids[k + 1]])

\* the tag list after iteration k of the loop (tgs: the list before it)
SelectTags(w_ids, p_ids, i2t, k, tgs) ==
    LET w_id == w_ids[k + 1]
    IN  IF w_id = None THEN tgs
        ELSE IF k = 0 \/ w_ids[k] # w_id THEN Append(tgs, i2t[p_ids[k + 1]])
        ELSE tgs

\* the loop run from position k to the end of word_ids
RECURSIVE SelectFrom(_, _, _, _, _)
SelectFrom(w_ids, p_ids, i2t, k, tgs) ==
    IF k >= Len(w_ids) THEN tgs
    ELSE SelectFrom(w_ids, p_ids, i2t, k + 1, SelectTags(w_ids, p_ids, i2t, k, tgs))

\* {v: k for k, v in tag2id.items()}
InvertDict(d) == [v \in {d[t] : t \in DOMAIN d} |-> CHOOSE t \in DOMAIN d : d[t] = v]

\* ------------------------------------------------------------------------
\* model_loader.py: _predict_verbose and correct_text
\* ------------------------------------------------------------------------
\* Python's None where an object is expected
NoObject == "None"

Whitespace == {" "}

\* str.strip()
strip(str) ==
    LET inner == {k \in 1..Len(str) : str[k] \notin Whitespace}
    IN  IF inner = {} THEN EmptyStr
        ELSE SubSeq(str, CHOOSE k \in inner : \A m \in inner : k <= m,
                         CHOOSE k \in inner : \A m \in inner : k >= m)

\* str.split(): the maximal runs of non-whitespace characters
RECURSIVE split(_)
split(str) ==
    IF Len(str) = 0 THEN <<>>
    ELSE IF str[1] \in Whitespace THEN split(Tail(str))
    ELSE LET ends == {k \in 1..Len(str) : str[k] \in Whitespace}
             e == IF ends = {} THEN Len(str) + 1 ELSE CHOOSE k \in ends : \A m \in ends : k <= m
         IN  <<SubSeq(str, 1, e - 1)>> \o split(SubSeq(str, e, Len(str)))

\* the word ids at which the loop appends, in order
SelectedWords(w_ids) ==
    SelectFrom(w_ids, w_ids, [w \in 0..Len(w_ids) |-> w], 0, <<>>)

\* _predict_verbose for the word_ids and arg-max ids the tokenizer and the
\* classifier gave: (corrected, results), top_probs left out
_predict_verbose(sentence, w_ids, p_ids, i2t) ==
    LET toks == split(strip(sentence))
        tgs == SelectFrom(w_ids, p_ids, i2t, 0, <<>>)
        words == SelectedWords(w_ids)
    IN  [corrected |-> _apply_tags(toks, tgs),
         results |-> [k \in 1..Len(tgs) |-> [token |-> toks[words[k] + 1], pred_tag |-> tgs[k]]]]

\* stands for the result of a _predict_verbose that did not return
NoPredict == [corrected |-> EmptyStr, results |-> <<>>]

Raise(exc) ==
    [kind |-> "raise", value |-> FALSE, status |-> 0, message |-> exc,
     corrected |-> EmptyStr, changed |-> FALSE, token_info |-> <<>>]

correct_text_unguarded(handle, sentence, raised, pv) ==
    IF raised THEN Raise("Exception")
    ELSE [kind |-> "return", value |-> FALSE, status |-> 0, message |-> "",
          corrected |-> pv.corrected,
          changed |-> strip(pv.corrected) # strip(sentence),
          token_info |-> pv.results]

\* correct_text; raised: _predict_verbose raised, pv: what it returned
correct_text(handle, sentence, raised, pv) ==
    IF handle = NoObject THEN Raise("RuntimeError")
    ELSE IF raised THEN Raise("Exception")
    ELSE [kind |-> "return", value |-> FALSE, status |-> 0, message |-> "",
          corrected |-> pv.corrected,
          changed |-> strip(pv.corrected) # strip(sentence),
          token_info |-> pv.results]

\* ------------------------------------------------------------------------
\* app.py: check_typos_endpoint
\* ------------------------------------------------------------------------
Http(status, message, corrected, changed, token_info) ==
    [kind |-> "return", value |-> FALSE, status |-> status, message |-> message,
     corrected |-> corrected, changed |-> changed, token_info |-> token_info]

\* data.get("sentence", "") when it is a str
SentenceOf(req) ==
    IF req.body = "dict" /\ req.sentence_type = "str" THEN req.sentence ELSE EmptyStr

\* where the handler leaves: the status of an early answer, "empty" for the
\* empty-sentence answer, "correct_text" when line 52 is reached
check_typos_exit(handle, req) ==
    IF handle = NoObject THEN "503"
    ELSE IF req.body = "list" THEN "500"
    ELSE IF ~req.top_k_valid THEN "500"
    ELSE IF req.body = "dict" /\ req.sentence_type = "other" THEN "400"
    ELSE IF strip(SentenceOf(req)) = EmptyStr THEN "empty"
    ELSE "correct_text"

\* the response; raised, pv: as for correct_text
check_typos_endpoint(handle, req, raised, pv) ==
    LET exit == check_typos_exit(handle, req)
        ct == correct_text(handle, SentenceOf(req), raised, pv)
    IN  IF exit = "503" THEN Http(503, "Model unavailable.", EmptyStr, FALSE, <<>>)
        ELSE IF exit = "500" THEN Http(500, "Internal Server Error", EmptyStr, FALSE, <<>>)
        ELSE IF exit = "400" THEN Http(400, "'sentence' must be a string", EmptyStr, FALSE, <<>>)
        ELSE IF exit = "empty" THEN Http(200, "Input sentence was empty.", EmptyStr, FALSE, <<>>)
        ELSE IF ct.kind = "raise" THEN Http(500, "Internal Server Error", EmptyStr, FALSE, <<>>)
        ELSE Http(200, "Typos checked successfully.", ct.corrected, ct.changed, ct.token_info)

\* ------------------------------------------------------------------------
\* Inputs
\* ------------------------------------------------------------------------
Tokens == {<<"a">>, <<"b">>, <<"c", "_", "d">>}

\* every list of at most n elements of S
RECURSIVE SeqsUpTo(_, _)
SeqsUpTo(S, n) ==
    IF n = 0 THEN {<<>>}
    ELSE LET shorter == SeqsUpTo(S, n - 1)
         IN  shorter \cup {Append(l, x) : l \in shorter, x \in S}

\* characters of the sentences sent to the service
Chars == {"a", "b", " "}

Sentences == SeqsUpTo(Chars, MaxChars)

\* the calls made on the service
LoadCall == [fn |-> "load_model", body |-> "none", sentence_type |-> "none",
             sentence |-> EmptyStr, top_k_valid |-> TRUE]

CorrectCalls ==
    {[fn |-> "correct_text", body |-> "none", sentence_type |-> "str",
      sentence |-> st, top_k_valid |-> TRUE] : st \in Sentences}

\* POST bodies: no JSON or a falsy one, a JSON list, or a JSON object whose
\* "sentence" is absent, a string or something else and whose "top_k"
\* int() accepts or not
TyposCalls ==
    {[fn |-> "check_typos", body |-> b, sentence_type |-> "none",
      sentence |-> EmptyStr, top_k_valid |-> TRUE] : b \in {"none", "list"}}
    \cup {[fn |-> "check_typos", body |-> "dict", sentence_type |-> ty,
           sentence |-> EmptyStr, top_k_valid |-> tk] :
             ty \in {"absent", "other"}, tk \in BOOLEAN}
    \cup {[fn |-> "check_typos", body |-> "dict", sentence_type |-> "str",
           sentence |-> st, top_k_valid |-> tk] : st \in Sentences, tk \in BOOLEAN}

Engines == {"tokenizer", "classifier", "apply_tags"}

\* the engines that ran when _predict_verbose raised
PartialRuns == {{"tokenizer"}, {"tokenizer", "classifier"}}

\* the opcode lists of the format get_opcodes documents for a and b, from
\* position (i, j) on: each opcode starts where the one before ends, the
\* last ends at (len(a), len(b)), "equal" spans hold equal tokens, "delete"
\* has an empty b span, "insert" an empty a span, "replace" neither, and
\* two opcodes in a row differ in kind (prev: the kind before)
RECURSIVE OpcodeLists(_, _, _, _, _)
OpcodeLists(a, b, i, j, prev) ==
    IF i = Len(a) /\ j = Len(b) THEN {<<>>}
    ELSE LET heads ==
                 {Opcode("equal", i, i + n, j, j + n) :
                     n \in {n \in 1..Min(Len(a) - i, Len(b) - j) :
                               Slice(a, i, i + n) = Slice(b, j, j + n)}}
                 \cup {Opcode("delete", i, i2, j, j) : i2 \in (i + 1)..Len(a)}
                 \cup {Opcode("insert", i, i, j, j2) : j2 \in (j + 1)..Len(b)}
                 \cup {Opcode("replace", i, i2, j, j2) :
                          i2 \in (i + 1)..Len(a), j2 \in (j + 1)..Len(b)}
         IN  UNION {{<<h>> \o rest : rest \in OpcodeLists(a, b, h.i2, h.j2, h.op)} :
                       h \in {h \in heads : h.op # prev}}

\* tags.py __main__: "a fuil stack engineer huilding web apps".split()
DemoOrig ==
    << <<"a">>, <<"f", "u", "i", "l">>, <<"s", "t", "a", "c", "k">>,
       <<"e", "n", "g", "i", "n", "e", "e", "r">>,
       <<"h", "u", "i", "l", "d", "i", "n", "g">>,
       <<"w", "e", "b">>, <<"a", "p", "p", "s">> >>

\* tags.py __main__: "a full-stack engineer building web apps".split()
DemoCor ==
    << <<"a">>, <<"f", "u", "l", "l", "-", "s", "t", "a", "c", "k">>,
       <<"e", "n", "g", "i", "n", "e", "e", "r">>,
       <<"b", "u", "i", "l", "d", "i", "n", "g">>,
       <<"w", "e", "b">>, <<"a", "p", "p", "s">> >>

\* words of the small corpus the vocabulary and the labels are built on
PoolTokens == {<<"a">>, <<"b">>}

\* the TaggedExample objects analyse() collects for that corpus
\* the corrected texts of that corpus: nothing, or one word
PoolCor == {<<>>} \cup {<<t>> : t \in PoolTokens}

\* the TaggedExample objects analyse() collects for that corpus
ExamplePool == {diff_to_tags(o, c) : o \in SeqsUpTo(PoolTokens, MaxPoolOrig), c \in PoolCor}

\* self.tag2id after analyse() has seen every row of the corpus
CorpusVocab ==
    Enumerate(Sorted(TagSetInit \cup UNION {ListElems(te.tags) : te \in ExamplePool}))

\* tag strings an id2tag table may hold, with the family each belongs to
TagCases ==
    { [kind |-> "keep", payload |-> EmptyStr, str |-> KEEP],
      [kind |-> "delete", payload |-> EmptyStr, str |-> DELETE],
      [kind |-> "replace", payload |-> <<"a">>, str |-> REPLACE \o <<"a">>],
      [kind |-> "replace", payload |-> <<"c", "_", "d">>, str |-> REPLACE \o <<"c", "_", "d">>],
      [kind |-> "replace", payload |-> EmptyStr, str |-> REPLACE],
      [kind |-> "other", payload |-> EmptyStr, str |-> INSERT \o <<"a">>],
      [kind |-> "other", payload |-> EmptyStr, str |-> KEEP_GAP],
      [kind |-> "other", payload |-> EmptyStr, str |-> EmptyStr],
      [kind |-> "other", payload |-> EmptyStr, str |-> <<"R", "E", "P", "L", "A", "C", "E">>] }

TagPool == {c.str : c \in TagCases}

\* word_ids of one encoded row of n words: an optional leading special
\* token, the words' sub-token runs in order, truncated to the room left,
\* then special and padding positions
IsWordIds(w, n) ==
    LET body == {p \in 1..Len(w) : w[p] # None}
    IN  /\ Len(w) = MaxLength
        /\ \A p \in body : w[p] \in 0..(n - 1)
        /\ \E first \in {1, 2} :
              \E last \in (first - 1)..(MaxLength - (first - 1)) :
                 /\ body = first..last
                 /\ body # {} => w[first] = 0
                 /\ \A p \in (first + 1)..last : w[p] \in {w[p - 1], w[p - 1] + 1}
                 /\ last < MaxLength - (first - 1) =>
                       IF n = 0 THEN body = {} ELSE body # {} /\ w[last] = n - 1

WordIdsOf(n) == {w \in SeqsUpTo({None} \cup (0..(n - 1)), MaxLength) : IsWordIds(w, n)}

\* word_ids of a row of n words tokenized without truncation or padding:
\* an optional leading special token, one run of sub-tokens per word, in
\* order, and the closing special token
IsInferWordIds(w, n) ==
    /\ Len(w) >= 1
    /\ w[Len(w)] = None
    /\ \E first \in {1, 2} :
          /\ first <= Len(w)
          /\ \A p \in 1..(first - 1) : w[p] = None
          /\ \A p \in first..(Len(w) - 1) : w[p] # None
          /\ IF n = 0 THEN first = Len(w)
             ELSE /\ first < Len(w)
                  /\ w[first] = 0
                  /\ w[Len(w) - 1] = n - 1
                  /\ \A p \in (first + 1)..(Len(w) - 1) : w[p] \in {w[p - 1], w[p - 1] + 1}

InferWordIds(n) ==
    {w \in SeqsUpTo({None} \cup (0..(n - 1)), MaxInferLen) : IsInferWordIds(w, n)}

\* the tag2id.json of a model trained on a corpus whose only replacement
\* is the word "a"
InferVocab == Enumerate(Sorted(TagSetInit \cup {REPLACE \o <<"a">>}))

\* what the tokenizer and the classifier can give for a sentence: word_ids
\* and one arg-max id per position, hence what _predict_verbose can return
PredictOutcomes(sentence, i2t) ==
    UNION {{_predict_verbose(sentence, w, p, i2t) : p \in [1..Len(w) -> DOMAIN i2t]} :
              w \in InferWordIds(Len(split(strip(sentence))))}

\* ------------------------------------------------------------------------
\* State
\* ------------------------------------------------------------------------
VARIABLES
    orig_tokens,   \* diff_to_tags argument
    cor_tokens,    \* diff_to_tags argument
    opcodes,       \* matcher.get_opcodes()
    i,             \* index of the next opcode
    tags,          \* one tag per original token, so far
    gaps,          \* the gap entries
    pc,            \* "idle", "call", "walk", "returned", "applied", or the exception raised
    out,           \* apply_tags(te.tokens, te.tags)
    tokens,        \* the words handed to tag application at inference
    tag_seq,       \* the tags handed to tag application at inference
    predicted,     \* result of predict.apply_tags
    corrected,     \* result of model_loader._apply_tags
    apc,           \* the tag applications that have returned
    examples,      \* build_tag_vocab argument
    ex_idx,        \* examples consumed by the update loop
    tag_set,       \* build_tag_vocab tag_set
    tag_list,      \* sorted tag list
    tag2id,        \* tag -> id
    vpc,           \* "idle", "call", "update", "done"
    example,       \* the (orig_tokens, tag_seq) row being encoded
    word_ids,      \* enc.word_ids()
    labels,        \* label list of the row
    idx,           \* position of the label loop
    lpc,           \* "idle", "call", "loop", "encoded"
    pred_ids,      \* the classifier's arg-max tag id per sub-token position
    id2tag,        \* tag id -> tag string
    ipc,           \* "idle", "call", "select", "selected", "predicted"
    symspell_model, \* model_loader global: NoObject or the loaded classifier
    _tokenizer,    \* model_loader global: NoObject or the loaded tokenizer
    _id2tag,       \* model_loader global: NoObject or the loaded id -> tag table
    spc,           \* "off", "idle", "called", or the position inside load_model
    call,          \* the call being served or last served, with its arguments
    resp,          \* what that call returned or raised
    ran            \* the engines the last step ran

alignVars == <<orig_tokens, cor_tokens, opcodes, i, tags, gaps, pc, out>>

applyVars == <<tokens, tag_seq, predicted, corrected, apc>>

vocabVars == <<examples, ex_idx, tag_set, tag_list, tag2id, vpc>>

labelVars == <<example, word_ids, labels, idx, lpc>>

inferVars == <<pred_ids, id2tag, ipc>>

serviceVars == <<symspell_model, _tokenizer, _id2tag, spc, call, resp, ran>>

coreVars == <<alignVars, applyVars, vocabVars, labelVars, inferVars>>

vars == <<coreVars, serviceVars>>

EmptyDict == [t \in {} |-> 0]

IdleAlign ==
    /\ orig_tokens = <<>>
    /\ cor_tokens = <<>>
    /\ opcodes = <<>>
    /\ i = 0
    /\ tags = <<>>
    /\ gaps = <<>>
    /\ pc = "idle"
    /\ out = EmptyStr

IdleApply ==
    /\ tokens = <<>>
    /\ tag_seq = <<>>
    /\ predicted = EmptyStr
    /\ corrected = EmptyStr
    /\ apc = {}

IdleVocab ==
    /\ examples = <<>>
    /\ ex_idx = 0
    /\ tag_set = {}
    /\ tag_list = <<>>
    /\ tag2id = EmptyDict
    /\ vpc = "idle"

IdleLabels ==
    /\ example = [tokens |-> <<>>, tags |-> <<>>]
    /\ word_ids = <<>>
    /\ labels = <<>>
    /\ idx = 0
    /\ lpc = "idle"

IdleInfer ==
    /\ pred_ids = <<>>
    /\ id2tag = EmptyDict
    /\ ipc = "idle"

NoCall == [fn |-> "none", body |-> "none", sentence_type |-> "none", sentence |-> EmptyStr,
           top_k_valid |-> TRUE]

NoResp == [kind |-> "none", value |-> FALSE, status |-> 0, message |-> "",
           corrected |-> EmptyStr, changed |-> FALSE, token_info |-> <<>>]

IdleService ==
    /\ symspell_model = NoObject
    /\ _tokenizer = NoObject
    /\ _id2tag = NoObject
    /\ spc = "off"
    /\ call = NoCall
    /\ resp = NoResp
    /\ ran = {}

\* ------------------------------------------------------------------------
\* Alignment followed by tag application
\* ------------------------------------------------------------------------
InitAlign ==
    /\ \/ /\ orig_tokens \in SeqsUpTo(Tokens, MaxOrig)
          /\ cor_tokens \in SeqsUpTo(Tokens, MaxCor)
       \/ /\ orig_tokens = DemoOrig
          /\ cor_tokens = DemoCor
    /\ opcodes = <<>>
    /\ i = 0
    /\ tags = <<>>
    /\ gaps = <<>>
    /\ pc = "call"
    /\ out = EmptyStr
    /\ IdleApply
    /\ IdleVocab
    /\ IdleLabels
    /\ IdleInfer
    /\ IdleService

\* diff_to_tags lines 42-47: matcher, tags, gaps, opcodes
DiffStart ==
    /\ pc = "call"
    /\ opcodes' = get_opcodes(orig_tokens, cor_tokens)
    /\ i' = WalkInit(orig_tokens).i
    /\ tags' = WalkInit(orig_tokens).tags
    /\ gaps' = WalkInit(orig_tokens).gaps
    /\ pc' = "walk"
    /\ UNCHANGED <<orig_tokens, cor_tokens, out, applyVars, vocabVars, labelVars, inferVars, serviceVars>>

\* one iteration of the while loop
DiffStep ==
    /\ pc = "walk"
    /\ i < Len(opcodes)
    /\ LET st == WalkStep(orig_tokens, cor_tokens, opcodes,
                          [i |-> i, tags |-> tags, gaps |-> gaps, pc |-> pc])
       IN  /\ i' = st.i
           /\ tags' = st.tags
           /\ gaps' = st.gaps
           /\ pc' = st.pc
    /\ UNCHANGED <<orig_tokens, cor_tokens, opcodes, out, applyVars, vocabVars, labelVars, inferVars, serviceVars>>

\* loop exit, the assertion and the return
DiffReturn ==
    /\ pc = "walk"
    /\ i >= Len(opcodes)
    /\ pc' = IF Len(tags) = Len(orig_tokens) THEN "returned" ELSE "AssertionError"
    /\ UNCHANGED <<orig_tokens, cor_tokens, opcodes, i, tags, gaps, out,
                   applyVars, vocabVars, labelVars, inferVars, serviceVars>>

\* apply_tags on the returned example
ApplyReturned ==
    /\ pc = "returned"
    /\ out' = apply_tags(orig_tokens, tags)
    /\ pc' = "applied"
    /\ UNCHANGED <<orig_tokens, cor_tokens, opcodes, i, tags, gaps,
                   applyVars, vocabVars, labelVars, inferVars, serviceVars>>

NextAlign == DiffStart \/ DiffStep \/ DiffReturn \/ ApplyReturned

Spec == InitAlign /\ [][NextAlign]_vars

\* ------------------------------------------------------------------------
\* Tag application at inference: one tag per word, any tag of the table
\* ------------------------------------------------------------------------
InitApply ==
    /\ tokens \in SeqsUpTo(Tokens, MaxWords)
    /\ tag_seq \in {t \in SeqsUpTo(TagPool, MaxWords) : Len(t) = Len(tokens)}
    /\ predicted = EmptyStr
    /\ corrected = EmptyStr
    /\ apc = {}
    /\ IdleAlign
    /\ IdleVocab
    /\ IdleLabels
    /\ IdleInfer
    /\ IdleService

\* predict.py line 67
PredictApply ==
    /\ "predict" \notin apc
    /\ predicted' = apply_tags(tokens, tag_seq)
    /\ apc' = apc \cup {"predict"}
    /\ UNCHANGED <<tokens, tag_seq, corrected, alignVars, vocabVars, labelVars, inferVars, serviceVars>>

\* model_loader.py line 91
LoaderApply ==
    /\ "loader" \notin apc
    /\ corrected' = _apply_tags(tokens, tag_seq)
    /\ apc' = apc \cup {"loader"}
    /\ UNCHANGED <<tokens, tag_seq, predicted, alignVars, vocabVars, labelVars, inferVars, serviceVars>>

NextApply == PredictApply \/ LoaderApply

SpecApply == InitApply /\ [][NextApply]_vars

\* ------------------------------------------------------------------------
\* Vocabulary building
\* ------------------------------------------------------------------------
InitVocab ==
    /\ examples \in SeqsUpTo(ExamplePool, MaxExamples)
    /\ ex_idx = 0
    /\ tag_set = {}
    /\ tag_list = <<>>
    /\ tag2id = EmptyDict
    /\ vpc = "call"
    /\ IdleAlign
    /\ IdleApply
    /\ IdleLabels
    /\ IdleInfer
    /\ IdleService

\* tags.py line 96
VocabStart ==
    /\ vpc = "call"
    /\ tag_set' = TagSetInit
    /\ vpc' = "update"
    /\ UNCHANGED <<examples, ex_idx, tag_list, tag2id, alignVars, applyVars, labelVars, inferVars, serviceVars>>

\* tags.py lines 97-98, one example
VocabUpdate ==
    /\ vpc = "update"
    /\ ex_idx < Len(examples)
    /\ tag_set' = TagSetUpdate(tag_set, examples[ex_idx + 1])
    /\ ex_idx' = ex_idx + 1
    /\ UNCHANGED <<examples, tag_list, tag2id, vpc, alignVars, applyVars, labelVars, inferVars, serviceVars>>

\* tags.py lines 99-100
VocabFinish ==
    /\ vpc = "update"
    /\ ex_idx >= Len(examples)
    /\ tag_list' = Sorted(tag_set)
    /\ tag2id' = Enumerate(Sorted(tag_set))
    /\ vpc' = "done"
    /\ UNCHANGED <<examples, ex_idx, tag_set, alignVars, applyVars, labelVars, inferVars, serviceVars>>

NextVocab == VocabStart \/ VocabUpdate \/ VocabFinish

SpecVocab == InitVocab /\ [][NextVocab]_vars

\* ------------------------------------------------------------------------
\* Label assembly for one row of the corpus
\* ------------------------------------------------------------------------
InitLabels ==
    /\ examples = <<>>
    /\ ex_idx = 0
    /\ tag_set = {}
    /\ tag_list = <<>>
    /\ tag2id = CorpusVocab
    /\ vpc = "idle"
    /\ \E te \in ExamplePool : example = [tokens |-> te.tokens, tags |-> te.tags]
    /\ word_ids = <<>>
    /\ labels = <<>>
    /\ idx = 0
    /\ lpc = "call"
    /\ IdleAlign
    /\ IdleApply
    /\ IdleInfer
    /\ IdleService

\* data.py lines 101-109: the tokenizer's word_ids and the initial labels
EncodeStart ==
    /\ lpc = "call"
    /\ word_ids' \in WordIdsOf(Len(example.tokens))
    /\ labels' = Repeat(IgnoreIndex, Len(word_ids'))
    /\ idx' = 0
    /\ lpc' = "loop"
    /\ UNCHANGED <<example, alignVars, applyVars, vocabVars, inferVars, serviceVars>>

\* data.py lines 111-118, one position
EncodeStep ==
    /\ lpc = "loop"
    /\ idx < Len(word_ids)
    /\ labels' = [labels EXCEPT ![idx + 1] =
                     LabelAt(word_ids, example.tags, tag2id, idx, labels[idx + 1])]
    /\ idx' = idx + 1
    /\ UNCHANGED <<example, word_ids, lpc, alignVars, applyVars, vocabVars, inferVars, serviceVars>>

\* data.py lines 120-126
EncodeRow ==
    /\ lpc = "loop"
    /\ idx >= Len(word_ids)
    /\ lpc' = "encoded"
    /\ UNCHANGED <<example, word_ids, labels, idx, alignVars, applyVars, vocabVars, inferVars, serviceVars>>

NextLabels == EncodeStart \/ EncodeStep \/ EncodeRow

SpecLabels == InitLabels /\ [][NextLabels]_vars

\* ------------------------------------------------------------------------
\* predict_sentence: tokenizer, classifier, selection loop, tag application
\* ------------------------------------------------------------------------
InitInfer ==
    /\ tokens \in SeqsUpTo(PoolTokens, MaxWords)
    /\ tag_seq = <<>>
    /\ predicted = EmptyStr
    /\ corrected = EmptyStr
    /\ apc = {}
    /\ example = [tokens |-> <<>>, tags |-> <<>>]
    /\ word_ids = <<>>
    /\ labels = <<>>
    /\ idx = 0
    /\ lpc = "idle"
    /\ pred_ids = <<>>
    /\ id2tag = InvertDict(InferVocab)
    /\ ipc = "call"
    /\ IdleAlign
    /\ IdleVocab
    /\ IdleService

\* predict.py lines 47-58: word_ids of the batch, arg-max id per position
InferEncode ==
    /\ ipc = "call"
    /\ word_ids' \in InferWordIds(Len(tokens))
    /\ pred_ids' \in [1..Len(word_ids') -> DOMAIN id2tag]
    /\ tag_seq' = <<>>
    /\ idx' = 0
    /\ ipc' = "select"
    /\ UNCHANGED <<tokens, predicted, corrected, apc, example, labels, lpc, id2tag,
                   alignVars, vocabVars, serviceVars>>

\* predict.py lines 61-65, one position
InferSelect ==
    /\ ipc = "select"
    /\ idx < Len(word_ids)
    /\ tag_seq' = SelectTags(word_ids, pred_ids, id2tag, idx, tag_seq)
    /\ idx' = idx + 1
    /\ UNCHANGED <<tokens, predicted, corrected, apc, example, word_ids, labels, lpc,
                   inferVars, alignVars, vocabVars, serviceVars>>

\* the loop's exit
InferSelected ==
    /\ ipc = "select"
    /\ idx >= Len(word_ids)
    /\ ipc' = "selected"
    /\ UNCHANGED <<applyVars, labelVars, pred_ids, id2tag, alignVars, vocabVars, serviceVars>>

\* predict.py line 67
InferApply ==
    /\ ipc = "selected"
    /\ predicted' = apply_tags(tokens, tag_seq)
    /\ ipc' = "predicted"
    /\ UNCHANGED <<tokens, tag_seq, corrected, apc, labelVars, pred_ids, id2tag,
                   alignVars, vocabVars, serviceVars>>

NextInfer == InferEncode \/ InferSelect \/ InferSelected \/ InferApply

SpecInfer == InitInfer /\ [][NextInfer]_vars

\* ------------------------------------------------------------------------
\* The opcode walk of diff_to_tags on any opcode list of the documented
\* format (the matcher's own lists are among them)
\* ------------------------------------------------------------------------
InitWalk ==
    /\ orig_tokens \in SeqsUpTo(PoolTokens, MaxWalk)
    /\ cor_tokens \in SeqsUpTo(PoolTokens, MaxWalk)
    /\ opcodes \in OpcodeLists(orig_tokens, cor_tokens, 0, 0, "")
    /\ i = WalkInit(orig_tokens).i
    /\ tags = WalkInit(orig_tokens).tags
    /\ gaps = WalkInit(orig_tokens).gaps
    /\ pc = "walk"
    /\ out = EmptyStr
    /\ IdleApply
    /\ IdleVocab
    /\ IdleLabels
    /\ IdleInfer
    /\ IdleService

NextWalk == DiffStep \/ DiffReturn

SpecWalk == InitWalk /\ [][NextWalk]_vars

\* ------------------------------------------------------------------------
\* The service: load_model, correct_text and check_typos called in any
\* order, one call at a time
\* ------------------------------------------------------------------------
InitService ==
    /\ symspell_model = NoObject
    /\ _tokenizer = NoObject
    /\ _id2tag = NoObject
    /\ spc = "idle"
    /\ call = NoCall
    /\ resp = NoResp
    /\ ran = {}
    /\ IdleAlign
    /\ IdleApply
    /\ IdleVocab
    /\ IdleLabels
    /\ IdleInfer

\* a call arrives
Call ==
    /\ spc = "idle"
    /\ call' \in {LoadCall} \cup CorrectCalls \cup TyposCalls
    /\ resp' = NoResp
    /\ ran' = {}
    /\ spc' = "called"
    /\ UNCHANGED <<symspell_model, _tokenizer, _id2tag, coreVars>>

\* load_model lines 99-101
LoadEnter ==
    /\ spc = "called"
    /\ call.fn = "load_model"
    /\ IF symspell_model # NoObject
       THEN /\ resp' = [NoResp EXCEPT !.kind = "return", !.value = TRUE]
            /\ spc' = "returned"
       ELSE /\ resp' = resp
            /\ spc' = "tokenizer"
    /\ ran' = {}
    /\ UNCHANGED <<symspell_model, _tokenizer, _id2tag, call, coreVars>>

\* line 102, or the exception it raises
LoadTokenizer ==
    /\ spc = "tokenizer"
    /\ \/ _tokenizer' = "tokenizer" /\ spc' = "id2tag"
       \/ _tokenizer' = _tokenizer /\ spc' = "except"
    /\ ran' = {}
    /\ UNCHANGED <<symspell_model, _id2tag, call, resp, coreVars>>

\* line 103, or the exception it raises
LoadId2tag ==
    /\ spc = "id2tag"
    /\ \/ _id2tag' = "id2tag" /\ spc' = "classifier"
       \/ _id2tag' = _id2tag /\ spc' = "except"
    /\ ran' = {}
    /\ UNCHANGED <<symspell_model, _tokenizer, call, resp, coreVars>>

\* lines 104-106, or the exception they raise
LoadClassifier ==
    /\ spc = "classifier"
    /\ \/ symspell_model' = "RobertaTagger" /\ spc' = "warm_up"
       \/ symspell_model' = symspell_model /\ spc' = "except"
    /\ ran' = {}
    /\ UNCHANGED <<_tokenizer, _id2tag, call, resp, coreVars>>

\* lines 107-108: the warm-up _predict_verbose, its result dropped
WarmUp ==
    /\ spc = "warm_up"
    /\ \/ /\ ran' = Engines
          /\ resp' = [NoResp EXCEPT !.kind = "return", !.value = TRUE]
          /\ spc' = "returned"
       \/ /\ ran' \in PartialRuns
          /\ resp' = resp
          /\ spc' = "except"
    /\ UNCHANGED <<symspell_model, _tokenizer, _id2tag, call, coreVars>>

\* lines 109-112
LoadExcept ==
    /\ spc = "except"
    /\ symspell_model' = NoObject
    /\ resp' = [NoResp EXCEPT !.kind = "return", !.value = FALSE]
    /\ spc' = "returned"
    /\ ran' = {}
    /\ UNCHANGED <<_tokenizer, _id2tag, call, coreVars>>

\* correct_text lines 123-129
CorrectText ==
    /\ spc = "called"
    /\ call.fn = "correct_text"
    /\ \/ \E pv \in IF symspell_model = NoObject THEN {NoPredict}
                      ELSE PredictOutcomes(call.sentence, InvertDict(InferVocab)) :
             /\ resp' = correct_text(symspell_model, call.sentence, FALSE, pv)
             /\ ran' = IF resp'.kind = "raise" THEN {} ELSE Engines
       \/ /\ symspell_model # NoObject
          /\ resp' = correct_text(symspell_model, call.sentence, TRUE, NoPredict)
          /\ ran' \in PartialRuns
    /\ spc' = "returned"
    /\ UNCHANGED <<symspell_model, _tokenizer, _id2tag, call, coreVars>>

\* check_typos_endpoint lines 32-62
CheckTypos ==
    /\ spc = "called"
    /\ call.fn = "check_typos"
    /\ LET line52 == check_typos_exit(symspell_model, call) = "correct_text"
       IN  \/ \E pv \in IF line52 THEN PredictOutcomes(SentenceOf(call), InvertDict(InferVocab))
                          ELSE {NoPredict} :
                /\ resp' = check_typos_endpoint(symspell_model, call, FALSE, pv)
                /\ ran' = IF line52 THEN Engines ELSE {}
           \/ /\ line52
              /\ resp' = check_typos_endpoint(symspell_model, call, TRUE, NoPredict)
              /\ ran' \in PartialRuns
    /\ spc' = "returned"
    /\ UNCHANGED <<symspell_model, _tokenizer, _id2tag, call, coreVars>>

\* the caller takes the result
Return ==
    /\ spc = "returned"
    /\ spc' = "idle"
    /\ call' = NoCall
    /\ resp' = NoResp
    /\ ran' = {}
    /\ UNCHANGED <<symspell_model, _tokenizer, _id2tag, coreVars>>

NextService ==
    \/ Call
    \/ LoadEnter
    \/ LoadTokenizer
    \/ LoadId2tag
    \/ LoadClassifier
    \/ WarmUp
    \/ LoadExcept
    \/ CorrectText
    \/ CheckTypos
    \/ Return

SpecService == InitService /\ [][NextService]_vars

\* ------------------------------------------------------------------------
\* Properties of the alignment (checked under Spec)
\* ------------------------------------------------------------------------
Returned == pc \in {"returned", "applied"}

\* c is a subsequence of o
RECURSIVE IsSubseq(_, _)
IsSubseq(c, o) ==
    IF Len(c) = 0 THEN TRUE
    ELSE IF Len(o) = 0 THEN FALSE
    ELSE IF c[1] = o[1] THEN IsSubseq(Tail(c), Tail(o))
    ELSE IsSubseq(c, Tail(o))

\* the pieces of a string between single spaces
RECURSIVE SplitSpace(_)
SplitSpace(str) ==
    LET k == FirstIndex(str, " ")
    IN  IF k = 0 THEN <<str>>
        ELSE <<SubSeq(str, 1, k - 1)>> \o SplitSpace(SubSeq(str, k + 1, Len(str)))

\* C1: diff_to_tags returns exactly one tag per original token for every
\* pair of inputs, and its final assertion never fails.
C1_OneTagPerToken ==
    /\ pc # "AssertionError"
    /\ Returned => Len(tags) = Len(orig_tokens)

C1_Witness ==
    /\ pc = "returned"
    /\ Len(orig_tokens) >= 2
    /\ \E k \in 1..Len(tags) : tags[k] = DELETE
    /\ \E k \in 1..Len(gaps) : gaps[k] # KEEP_GAP

\* C2: applying the tags of diff_to_tags(orig, corr) to orig gives the
\* tokens of corr joined by single spaces, for every pair.
C2_RoundTrip == pc = "applied" => out = SpaceJoin(cor_tokens)

\* C3: for orig and corr of the same length (corr is orig with some tokens
\* substituted) the round trip gives " ".join(corr), and a single
\* substituted token between unchanged tokens is tagged REPLACE_<new token>
\* with KEEP on both neighbours.
C3_SubstitutionRoundTrip ==
    (pc = "applied" /\ Len(orig_tokens) = Len(cor_tokens)) =>
        /\ out = SpaceJoin(cor_tokens)
        /\ \A k \in 2..(Len(orig_tokens) - 1) :
              (\A m \in 1..Len(orig_tokens) : (orig_tokens[m] # cor_tokens[m]) <=> (m = k))
              => /\ tags[k] = REPLACE \o cor_tokens[k]
                 /\ tags[k - 1] = KEEP
                 /\ tags[k + 1] = KEEP

\* C4: on the demo pair the tags have REPLACE_full-stack at index 1 and
\* REPLACE_building at index 3, and applying them gives
\* "a full-stack engineer building web apps".
C4_DemoScenario ==
    (pc = "applied" /\ orig_tokens = DemoOrig /\ cor_tokens = DemoCor) =>
        /\ tags[1 + 1] = REPLACE \o DemoCor[2]
        /\ tags[3 + 1] = REPLACE \o DemoCor[4]
        /\ out = SpaceJoin(DemoCor)

\* C5: when corr is orig with tokens removed, the tags are only KEEP and
\* DELETE and applying them gives " ".join(corr).
C5_DeletionRoundTrip ==
    (pc = "applied" /\ IsSubseq(cor_tokens, orig_tokens)) =>
        /\ \A k \in 1..Len(tags) : tags[k] \in {KEEP, DELETE}
        /\ Cardinality({k \in 1..Len(tags) : tags[k] = DELETE})
              = Len(orig_tokens) - Len(cor_tokens)
        /\ out = SpaceJoin(cor_tokens)

\* C6: gap_tags always has len(orig) + 1 entries, each one KEEP_GAP or a
\* non-empty space-joined list of INSERT_<token of corr>, and no gap index
\* outside 0..len(orig) is written.
IsInsertList(g, cor) ==
    \A piece \in ListElems(SplitSpace(g)) :
        /\ StartsWith(piece, INSERT)
        /\ SubSeq(piece, Len(INSERT) + 1, Len(piece)) \in ListElems(cor)

C6_GapShape ==
    /\ pc # "IndexError"
    /\ pc # "call" =>
        /\ Len(gaps) = Len(orig_tokens) + 1
        /\ \A k \in 1..Len(gaps) : gaps[k] = KEEP_GAP \/ IsInsertList(gaps[k], cor_tokens)

C6_Witness ==
    /\ pc = "returned"
    /\ Len(orig_tokens) >= 1
    /\ gaps[Len(orig_tokens) + 1] # KEEP_GAP
    /\ Len(SplitSpace(gaps[Len(orig_tokens) + 1])) >= 2

\* C7: diff_to_tags(T, T) tags every token KEEP and leaves every gap
\* KEEP_GAP, for every T, the empty one and ones with repeats included.
C7_Identity ==
    (pc # "call" /\ orig_tokens = cor_tokens) =>
        /\ pc \in {"walk", "returned", "applied"}
        /\ Returned =>
              /\ tags = [k \in 1..Len(orig_tokens) |-> KEEP]
              /\ \A k \in 1..Len(gaps) : gaps[k] = KEEP_GAP

C7_Witness ==
    /\ pc = "returned"
    /\ orig_tokens = cor_tokens
    /\ Len(orig_tokens) >= 3
    /\ orig_tokens[1] = orig_tokens[3]

\* ------------------------------------------------------------------------
\* Properties of tag application (checked under SpecApply)
\* ------------------------------------------------------------------------
CaseOf(tag) == CHOOSE c \in TagCases : c.str = tag

\* the pieces the keep/delete/replace semantics asks for, by tag family
RECURSIVE ExpectedPieces(_, _)
ExpectedPieces(toks, tgs) ==
    IF Len(toks) = 0 THEN <<>>
    ELSE LET c == CaseOf(tgs[1])
             piece == IF c.kind = "delete" THEN <<>>
                      ELSE IF c.kind = "replace" THEN <<c.payload>>
                      ELSE <<toks[1]>>
         IN  piece \o ExpectedPieces(Tail(toks), Tail(tgs))

\* C8: for tokens and tags of equal length, tag application returns the
\* single-space join of the token for KEEP, the payload for REPLACE_<word>,
\* the token for any other tag string, and nothing for DELETE; the same for
\* predict.apply_tags and model_loader._apply_tags.
C8_ApplySemantics ==
    /\ "predict" \in apc => predicted = SpaceJoin(ExpectedPieces(tokens, tag_seq))
    /\ "loader" \in apc => corrected = SpaceJoin(ExpectedPieces(tokens, tag_seq))

C8_Witness ==
    /\ apc = {"predict", "loader"}
    /\ Len(tokens) = 2
    /\ CaseOf(tag_seq[1]).kind = "other"
    /\ tag_seq[2] = REPLACE \o <<"c", "_", "d">>
    /\ predicted = tokens[1] \o <<" ", "c", "_", "d">>

\* ------------------------------------------------------------------------
\* Properties of the vocabulary (checked under SpecVocab)
\* ------------------------------------------------------------------------
ExampleTags == UNION {ListElems(examples[k].tags) : k \in 1..Len(examples)}

ExampleGapTags == UNION {ListElems(examples[k].gap_tags) : k \in 1..Len(examples)}

\* C9: the tag list is the sorted set {KEEP, DELETE} plus every per-token
\* tag of every example, whatever the order and repetition of the examples;
\* each tag maps to its index in the list; no gap entry enters.
C9_VocabIsSortedTagSet ==
    vpc = "done" =>
        /\ ListElems(tag_list) = {KEEP, DELETE} \cup ExampleTags
        /\ \A k \in 1..Len(tag_list) : \A m \in (k + 1)..Len(tag_list) :
              StrLess(tag_list[k], tag_list[m])
        /\ tag_list[1] = DELETE
        /\ tag_list[2] = KEEP
        /\ DOMAIN tag2id = ListElems(tag_list)
        /\ \A k \in 1..Len(tag_list) : tag2id[tag_list[k]] = k - 1
        /\ ExampleGapTags \cap ListElems(tag_list) = {}

C9_Witness ==
    /\ vpc = "done"
    /\ Len(examples) = 2
    /\ examples[1] # examples[2]
    /\ \E g \in ExampleGapTags : is_insert(g)
    /\ Len(tag_list) >= 3

\* ------------------------------------------------------------------------
\* Properties of label assembly (checked under SpecLabels)
\* ------------------------------------------------------------------------
\* C10: a position holds -100 when its word id is null or equals the word
\* id before it, and tag2id[tag_seq[word id]] otherwise, so each word has
\* exactly one labelled position, its first sub-token.
C10_FirstSubTokenLabels ==
    lpc \in {"loop", "encoded"} =>
        /\ Len(labels) = Len(word_ids)
        /\ \A p \in 1..Len(word_ids) :
              labels[p] =
                 IF p > idx THEN IgnoreIndex
                 ELSE IF word_ids[p] = None THEN IgnoreIndex
                 ELSE IF p > 1 /\ word_ids[p - 1] = word_ids[p] THEN IgnoreIndex
                 ELSE tag2id[example.tags[word_ids[p] + 1]]
        /\ lpc = "encoded" =>
              \A w \in ListElems(word_ids) \ {None} :
                 LET run == {p \in 1..Len(word_ids) : word_ids[p] = w}
                     first == CHOOSE p \in run : \A q \in run : p <= q
                 IN  {p \in run : labels[p] # IgnoreIndex} = {first}

C10_Witness ==
    /\ lpc = "encoded"
    /\ word_ids[1] = None
    /\ \E p \in 2..(Len(word_ids) - 2) :
          /\ word_ids[p] = 0
          /\ word_ids[p + 1] = 0
          /\ word_ids[p + 2] = 1
          /\ labels[p] # IgnoreIndex
          /\ labels[p + 2] # IgnoreIndex
          /\ labels[p] # labels[p + 2]

\* ------------------------------------------------------------------------
\* Properties of inference aggregation (checked under SpecInfer)
\* ------------------------------------------------------------------------
\* the first position of word w in word_ids
FirstSubToken(w) ==
    CHOOSE p \in 1..Len(word_ids) :
        word_ids[p] = w /\ \A q \in 1..(p - 1) : word_ids[q] # w

\* C11: for word_ids covering the words 0..n-1 in order, one run each, the
\* selection loop yields exactly n tags, the k-th being the predicted tag
\* at the first sub-token of word k, so tag application is handed as many
\* tags as tokens and zip drops no token.
C11_OneTagPerWord ==
    /\ ipc = "select" =>
          Len(tag_seq) = Cardinality({word_ids[p] : p \in 1..idx} \ {None})
    /\ ipc \in {"selected", "predicted"} =>
          /\ Len(tag_seq) = Len(tokens)
          /\ \A k \in 1..Len(tokens) :
                tag_seq[k] = id2tag[pred_ids[FirstSubToken(k - 1)]]
    /\ ipc = "predicted" =>
          predicted = SpaceJoin(ExpectedPieces(tokens, tag_seq))

C11_Witness ==
    /\ ipc = "predicted"
    /\ Len(tokens) = 2
    /\ word_ids = <<None, 0, 0, 1, None>>
    /\ id2tag[pred_ids[2]] = KEEP
    /\ id2tag[pred_ids[3]] = DELETE
    /\ id2tag[pred_ids[4]] = REPLACE \o <<"a">>
    /\ tag_seq = <<KEEP, REPLACE \o <<"a">> >>

\* ------------------------------------------------------------------------
\* Further properties of the alignment (checked under Spec)
\* ------------------------------------------------------------------------
\* length of a longest common subsequence of o and c
RECURSIVE LCSLen(_, _)
LCSLen(o, c) ==
    IF Len(o) = 0 \/ Len(c) = 0 THEN 0
    ELSE IF o[1] = c[1] THEN 1 + LCSLen(Tail(o), Tail(c))
    ELSE LET skip_o == LCSLen(Tail(o), c)
             skip_c == LCSLen(o, Tail(c))
         IN  IF skip_o > skip_c THEN skip_o ELSE skip_c

\* C12: the number of KEEP tags diff_to_tags returns equals the length of
\* a longest common subsequence of orig and corr, for every pair.
C12_KeepCountIsLCS ==
    Returned =>
        Cardinality({k \in 1..Len(tags) : tags[k] = KEEP}) = LCSLen(orig_tokens, cor_tokens)

\* ------------------------------------------------------------------------
\* Properties of the opcode walk (checked under SpecWalk)
\* ------------------------------------------------------------------------
\* the opcode the walk is about to visit, and the one after it
AtOpcode(kind) == pc = "walk" /\ i < Len(opcodes) /\ opcodes[i + 1].op = kind

NextIsInsertOf(n) ==
    /\ i + 1 < Len(opcodes)
    /\ opcodes[i + 2].op = "insert"
    /\ n = 0 \/ opcodes[i + 2].j2 - opcodes[i + 2].j1 = n

\* C13: a delete opcode becomes one REPLACE_<inserted token> tag exactly
\* when it deletes one token and the next opcode inserts one token, and
\* then the insert is skipped and writes no gap entry; any other delete of
\* length L emits L DELETE tags (a following insert is then visited), and
\* a visited insert writes its INSERT_ list at the gap index equal to the
\* number of tags emitted so far.
C13_FusionTieBreak ==
    [][/\ AtOpcode("delete") =>
            LET o == opcodes[i + 1]
            IN  IF o.i2 - o.i1 = 1 /\ NextIsInsertOf(1)
                THEN /\ tags' = Append(tags, REPLACE \o cor_tokens[opcodes[i + 2].j1 + 1])
                     /\ i' = i + 2
                     /\ gaps' = gaps
                ELSE /\ tags' = tags \o [k \in 1..(o.i2 - o.i1) |-> DELETE]
                     /\ i' = i + 1
                     /\ gaps' = gaps
                     /\ NextIsInsertOf(0) => AtOpcode("insert")'
       /\ AtOpcode("insert") =>
            /\ tags' = tags
            /\ i' = i + 1
            /\ gaps' = [gaps EXCEPT ![Len(tags) + 1] =
                           InsertGap(cor_tokens, opcodes[i + 1].j1, opcodes[i + 1].j2)]
      ]_vars

C13_Witness ==
    /\ pc = "returned"
    /\ Len(opcodes) = 3
    /\ opcodes[1] = Opcode("delete", 0, 1, 0, 0)
    /\ opcodes[2] = Opcode("insert", 1, 1, 0, 1)
    /\ opcodes[3].op = "delete"
    /\ tags = <<REPLACE \o cor_tokens[1], DELETE>>
    /\ \A k \in 1..Len(gaps) : gaps[k] = KEEP_GAP

\* ------------------------------------------------------------------------
\* Properties of the service (checked under SpecService)
\* ------------------------------------------------------------------------
Loaded == symspell_model # NoObject /\ _tokenizer # NoObject /\ _id2tag # NoObject

\* C14: in every sequence of load_model, correct_text and check_typos
\* calls, a step runs the tokenizer, the classifier or tag application only
\* from a state where symspell_model is set, and then _tokenizer and
\* _id2tag are set too; a load_model that returns False leaves the handle
\* null; a correct_text that returns while the handle is null has raised
\* RuntimeError and a check_typos has answered 503, neither having run an
\* engine.
C14_LoadBeforeInference ==
    /\ [](symspell_model # NoObject => Loaded)
    /\ []((spc = "returned" /\ call.fn = "load_model") =>
             (resp.value <=> symspell_model # NoObject))
    /\ []((spc = "returned" /\ symspell_model = NoObject) =>
             /\ call.fn = "correct_text" => resp = Raise("RuntimeError") /\ ran = {}
             /\ call.fn = "check_typos" => resp.status = 503 /\ ran = {})
    /\ [][ran' # {} => Loaded]_vars

C14_Witness ==
    /\ spc = "returned"
    /\ call.fn = "check_typos"
    /\ call.sentence = <<"a", " ", "b">>
    /\ symspell_model = NoObject
    /\ _tokenizer # NoObject
    /\ _id2tag # NoObject
    /\ resp.status = 503
    /\ ran = {}

\* C15: every check_typos request whose sentence is empty or only
\* whitespace is answered with the trivial result (status 200, corrected
\* sentence "", corrections_made false, no token details) and runs neither
\* correct_text nor an engine.
C15_EmptyShortCircuit ==
    (/\ spc = "returned"
     /\ call.fn = "check_typos"
     /\ call.body = "dict"
     /\ call.sentence_type = "str"
     /\ strip(call.sentence) = EmptyStr) =>
        /\ resp = Http(200, "Input sentence was empty.", EmptyStr, FALSE, <<>>)
        /\ ran = {}

\* C18: correct_text returns corrections_made = False when every word's
\* tag leaves the word as it is (KEEP, a fall-back tag, REPLACE_ with the
\* word's own text), whatever the whitespace of the sentence, and True when
\* some word is deleted or replaced by a different word.
C18_ChangedIffTokenChanged ==
    (spc = "returned" /\ call.fn = "correct_text" /\ resp.kind = "return") =>
        LET info == resp.token_info
            altered == {k \in 1..Len(info) : Piece(info[k].token, info[k].pred_tag) # <<info[k].token>>}
        IN  resp.changed <=> altered # {}

\* ------------------------------------------------------------------------
\* Tags and gap tags together (checked under Spec)
\* ------------------------------------------------------------------------
\* the tokens a gap entry inserts
GapPayloads(g) ==
    IF g = KEEP_GAP THEN <<>>
    ELSE LET pieces == SplitSpace(g)
         IN  [k \in 1..Len(pieces) |-> SubSeq(pieces[k], Len(INSERT) + 1, Len(pieces[k]))]

\* the tokens a tag leaves of its token
TagPayload(tok, tg) ==
    IF tg = KEEP THEN <<tok>>
    ELSE IF StartsWith(tg, REPLACE) THEN <<SubSeq(tg, Len(REPLACE) + 1, Len(tg))>>
    ELSE <<>>

\* gap k, token k, gap k + 1, ... to the last gap
RECURSIVE Rebuild(_, _, _, _)
Rebuild(toks, tgs, gps, k) ==
    IF k > Len(toks) THEN <<>>
    ELSE GapPayloads(gps[k + 1])
         \o (IF k < Len(toks) THEN TagPayload(toks[k + 1], tgs[k + 1]) ELSE <<>>)
         \o Rebuild(toks, tgs, gps, k + 1)

\* the walk is at an opcode that writes a gap entry
WritesGap ==
    /\ pc = "walk"
    /\ i < Len(opcodes)
    /\ \/ opcodes[i + 1].op = "insert"
       \/ /\ opcodes[i + 1].op = "replace"
          /\ opcodes[i + 1].i2 - opcodes[i + 1].i1 # opcodes[i + 1].j2 - opcodes[i + 1].j1

\* C16: for every pair, the gap payloads and the tag pieces read in the
\* order gap 0, token 0, gap 1, ..., gap len(orig) are exactly corr, and
\* each gap entry is written at most once during the walk.
C16_TagsAndGapsLossless ==
    /\ [](Returned => Rebuild(orig_tokens, tags, gaps, 0) = cor_tokens)
    /\ [][WritesGap =>
            /\ gaps[Len(tags') + 1] = KEEP_GAP
            /\ gaps'[Len(tags') + 1] # KEEP_GAP
            /\ \A k \in 1..Len(gaps) : k # Len(tags') + 1 => gaps'[k] = gaps[k]]_vars

C16_Witness ==
    /\ pc = "applied"
    /\ \E k \in 2..(Len(gaps) - 1) : Len(GapPayloads(gaps[k])) >= 2
    /\ \E k \in 1..Len(tags) : tags[k] = DELETE
    /\ \E k \in 1..Len(tags) : tags[k] = KEEP
    /\ Rebuild(orig_tokens, tags, gaps, 0) = cor_tokens
    /\ out # SpaceJoin(cor_tokens)

\* C17: the opcode list the matcher returns never has an insert right
\* after a delete: an opcode other than "equal" is always followed by an
\* "equal" one, so the walk never stands at a delete it could fuse, and
\* every REPLACE_ tag returned comes from a replace opcode whose two spans
\* have the same length.
C17_LookAheadUnreachable ==
    /\ \A p \in 1..(Len(opcodes) - 1) :
          /\ ~(opcodes[p].op = "delete" /\ opcodes[p + 1].op = "insert")
          /\ opcodes[p].op # "equal" => opcodes[p + 1].op = "equal"
    /\ ~(AtOpcode("delete") /\ NextIsInsertOf(0))
    /\ Returned =>
          \A k \in 1..Len(tags) :
              StartsWith(tags[k], REPLACE) =>
                  \E p \in 1..Len(opcodes) :
                      LET o == opcodes[p]
                      IN  /\ o.op = "replace"
                          /\ o.i2 - o.i1 = o.j2 - o.j1
                          /\ k \in (o.i1 + 1)..o.i2
                          /\ tags[k] = REPLACE \o cor_tokens[o.j1 + (k - o.i1)]

C17_Witness ==
    /\ pc = "returned"
    /\ \E p \in 1..Len(opcodes) : opcodes[p].op = "delete" /\ opcodes[p].i2 - opcodes[p].i1 = 1
    /\ \E p \in 1..Len(opcodes) :
          /\ opcodes[p].op = "replace"
          /\ opcodes[p].i2 - opcodes[p].i1 = 1
          /\ opcodes[p].j2 - opcodes[p].j1 = 1
    /\ \E k \in 1..Len(tags) : StartsWith(tags[k], REPLACE)

====
